---- MODULE Spec2Model ----
(***************************************************************************)
(* Model of amazon-s3-checksum-tool's "checksum" command: the CLI action   *)
(* of cmd/s3checksum/main.go, NewMultipartFile, CalculateChecksumForPart   *)
(* and CalculateChecksum of multipartfile.go, and WriteSimpleManifest of   *)
(* manifest.go.                                                            *)
(*                                                                         *)
(* Byte strings are sequences of chunks.  A chunk is a record              *)
(*   [k, lo, hi, of]                                                       *)
(* with k = "file"  : the bytes [lo, hi) of the file on disk,              *)
(*      k = "zero"  : hi - lo zero bytes (a freshly made buffer),          *)
(*      k = "sha256" / "md5" : the digest of the byte string `of`.         *)
(* Adjacent file ranges are merged, so two byte strings are equal exactly  *)
(* when their chunk sequences are equal (the file's bytes are taken to be  *)
(* generic and the hash functions collision free).                         *)
(*                                                                         *)
(* Granularity.  A goroutine's step ends at each channel operation, at     *)
(* wg.Done and at each point where it holds pool objects: a worker reads   *)
(* (open, seek, bufferPool.Get, io.ReadFull), hashes (hashPool.Get up to   *)
(* the return of calculateEtag), returns (the deferred Puts), takes its    *)
(* token back, publishes, and calls Done.  sync.Pool.Get hands out any     *)
(* pooled object or a new one.  A process exit (log.Fatal, a panic, main   *)
(* returning) stops every goroutine.  Digests are rendered as the command  *)
(* renders them without --print-hex.                                       *)
(***************************************************************************)
EXTENDS Integers, Sequences, FiniteSets, Bags, TLC

\* ------------------------------------------------------------ bounds
MaxParts == 2
MaxThreads == 2

\* ------------------------------------------------- program constants
MIN_PART_SIZE == 5242880

\* ------------------------------------------------------ input domains
\* --file: "" (flag absent), a path that cannot be stat-ed, a regular file
FilePaths == {"", "missing", "file"}
\* --manifest: "" or a path
ManifestPaths == {"", "manifest.json"}
\* --chunksize, in MiB
ChunkSizes == {4, 5, 6}
\* --threads
ThreadCounts == -1 .. MaxThreads
\* sizes of the file on disk: empty, one byte past every multiple of the
\* minimum part size within the bound, and exactly one and two minimum parts
FileSizes ==
    {0} \cup { q * MIN_PART_SIZE + 1 : q \in 0 .. (MaxParts - 1) }
        \cup { MIN_PART_SIZE, 2 * MIN_PART_SIZE }

\* goroutine slots: one per part index, and one beyond the last part
Parts == 0 .. MaxParts

\* ------------------------------------------------------- byte strings
FileChunk(lo, hi) == [k |-> "file", lo |-> lo, hi |-> hi, of |-> <<>>]
ZeroChunk(n) == [k |-> "zero", lo |-> 0, hi |-> n, of |-> <<>>]
DigestChunk(alg, data) == [k |-> alg, lo |-> 0, hi |-> 0, of |-> data]

FileBytes(lo, hi) == IF hi > lo THEN << FileChunk(lo, hi) >> ELSE <<>>
ZeroBytes(n) == IF n > 0 THEN << ZeroChunk(n) >> ELSE <<>>

RECURSIVE BLen(_)
BLen(b) == IF b = <<>> THEN 0 ELSE (Head(b).hi - Head(b).lo) + BLen(Tail(b))

Mergeable(c, d) ==
    \/ c.k = "file" /\ d.k = "file" /\ c.hi = d.lo
    \/ c.k = "zero" /\ d.k = "zero"

Merge(c, d) ==
    IF c.k = "file" THEN FileChunk(c.lo, d.hi) ELSE ZeroChunk(c.hi + d.hi)

\* concatenation a || b
Cat(a, b) ==
    IF a = <<>> THEN b
    ELSE IF b = <<>> THEN a
    ELSE IF Mergeable(a[Len(a)], Head(b))
         THEN SubSeq(a, 1, Len(a) - 1) \o << Merge(a[Len(a)], Head(b)) >> \o Tail(b)
         ELSE a \o b

ChunkTake(c, n) == IF c.k = "file" THEN FileChunk(c.lo, c.lo + n) ELSE ZeroChunk(n)
ChunkDrop(c, n) == IF c.k = "file" THEN FileChunk(c.lo + n, c.hi) ELSE ZeroChunk(c.hi - n)

\* b[:n]
RECURSIVE Take(_, _)
Take(b, n) ==
    IF n <= 0 \/ b = <<>> THEN <<>>
    ELSE LET l == Head(b).hi - Head(b).lo
         IN IF n >= l THEN << Head(b) >> \o Take(Tail(b), n - l)
            ELSE << ChunkTake(Head(b), n) >>

\* b[n:]
RECURSIVE Drop(_, _)
Drop(b, n) ==
    IF n <= 0 \/ b = <<>> THEN b
    ELSE LET l == Head(b).hi - Head(b).lo
         IN IF n >= l THEN Drop(Tail(b), n - l)
            ELSE << ChunkDrop(Head(b), n) >> \o Tail(b)

\* copy(dst[0:], src): dst with its first BLen(src) bytes overwritten
Overwrite(dst, src) == Cat(src, Drop(dst, BLen(src)))

\* ------------------------------------------------------ hash.Hash
\* the state of an accumulator is the byte string written since its reset
HashNew == <<>>
\* mutant: a Reset that leaves the accumulated bytes in place
HashReset_Noop(st) == st
HashReset(st) == <<>>
HashWrite(st, data) == Cat(st, data)
HashSum(alg, st) == << DigestChunk(alg, st) >>

\* ------------------------------------------------------ sync.Pool
\* Get returns some pooled object, or a new one made by New
PoolGet(pool, new) ==
    { [obj |-> x, pool |-> pool (-) SetToBag({x})] : x \in BagToSet(pool) }
        \cup { [obj |-> new, pool |-> pool] }
PoolPut(pool, x) == pool (+) SetToBag({x})

\* mutant: a return path on which the deferred Put does not run
DeferredPut_Skipped(pool, x) == pool

\* defer pool.Put(x): runs when the function that took x returns
DeferredPut(pool, x) == PoolPut(pool, x)

\* an optional value: <<>> (nil) or << v >>
None == <<>>
Some(v) == << v >>

\* ------------------------------------------------------------- state
VARIABLES
    file,           \* main.go: --file
    manifestFile,   \* main.go: --manifest
    chunksize,      \* main.go: --chunksize
    threads,        \* main.go: --threads
    diskSize,       \* the size os.Stat reports for the file
    pc,             \* position of the main goroutine
    exit,           \* "running", or how the process ended
    m,              \* the MultipartFileOpts / MultipartFile being built and used
    bufferPool, hashPool, md5HashPool,
    limiter,        \* number of tokens buffered in the limiter channel
    limiterClosed,
    resultsClosed,
    wg,             \* the WaitGroup's counter
    disp,           \* the dispatching goroutine: [pc, i]
    closer,         \* the closing goroutine's position
    workers,        \* the per-part goroutines, by part index
    held,           \* accumulators held by CalculateChecksum itself
    partInfoList,
    received,       \* history: the PartNumbers in the order the loop received them
    manifest,       \* the *ManifestFile built by CalculateChecksum (None = nil)
    disk,           \* rows WriteSimpleManifest has written
    stdout          \* lines the checksum command has printed

inputs == << file, manifestFile, chunksize, threads, diskSize >>
pools == << bufferPool, hashPool, md5HashPool >>
chans == << limiter, limiterClosed, resultsClosed, wg >>
outputs == << manifest, disk, stdout >>
vars == << inputs, pc, exit, m, pools, chans, disp, closer, workers, held,
           partInfoList, received, outputs >>

IdleWorker ==
    [pc |-> "idle", err |-> "", buf |-> None, h |-> None,
     data |-> <<>>, checksum |-> <<>>, md5checksum |-> <<>>, info |-> None]

Init ==
    /\ file \in FilePaths
    /\ manifestFile \in ManifestPaths
    /\ chunksize \in ChunkSizes
    /\ threads \in ThreadCounts
    /\ diskSize \in FileSizes
    /\ pc = "Action"
    /\ exit = "running"
    /\ m = [FilePath |-> "", ManifestFilePath |-> "", FileSize |-> 0,
            NumberOfParts |-> 0, PartSize |-> 0, Threads |-> 0, Algorithm |-> ""]
    /\ bufferPool = EmptyBag /\ hashPool = EmptyBag /\ md5HashPool = EmptyBag
    /\ limiter = 0 /\ limiterClosed = FALSE /\ resultsClosed = FALSE /\ wg = 0
    /\ disp = [pc |-> "idle", i |-> 0]
    /\ closer = "idle"
    /\ workers = [w \in Parts |-> IdleWorker]
    /\ held = [h |-> None, etagChecksum |-> None]
    /\ partInfoList = <<>>
    /\ received = <<>>
    /\ manifest = None
    /\ disk = <<>>
    /\ stdout = <<>>

\* log.Fatal, a panic, or main returning: the process and all goroutines end
Exit(how) ==
    /\ exit' = how
    /\ UNCHANGED << inputs, received, pc, m, pools, chans, disp, closer, workers, held,
                    partInfoList, outputs >>

\* ------------------------------------------- cmd/s3checksum/main.go
\* the checksum command's Action, up to the call of NewMultipartFile
Action ==
    /\ exit = "running" /\ pc = "Action"
    /\ IF threads < 0 THEN Exit("fatal: threads must be a positive value")
       ELSE IF file = "" THEN Exit("error: --file flag is required")
       ELSE /\ m' = [FilePath |-> file, ManifestFilePath |-> manifestFile,
                     FileSize |-> 0, NumberOfParts |-> 0,
                     PartSize |-> chunksize * 1024 * 1024, Threads |-> threads,
                     Algorithm |-> ""]
            /\ pc' = "checkRequiredArgs"
            /\ UNCHANGED << inputs, received, exit, pools, chans, disp, closer, workers,
                            held, partInfoList, outputs >>

\* ---------------------------------------------------- NewMultipartFile
StatFails(path) == path = "missing"

checkRequiredArgs ==
    /\ exit = "running" /\ pc = "checkRequiredArgs"
    /\ IF m.FilePath = "" THEN Exit("fatal: FilePath is a required parameter")
       ELSE IF StatFails(m.FilePath) THEN Exit("fatal: stat")
       ELSE /\ m' = [m EXCEPT !.FileSize = diskSize]
            /\ pc' = "resolvePartSize"
            /\ UNCHANGED << inputs, received, exit, pools, chans, disp, closer, workers,
                            held, partInfoList, outputs >>

\* mutant: the quotient truncated instead of rounded up
CeilDiv_Truncating(a, b) == a \div b

\* int(math.Ceil(float64(a) / float64(b))), exact for 0 <= a < 2^53, b > 0
CeilDiv(a, b) == IF a % b = 0 THEN a \div b ELSE (a \div b) + 1

\* mutant: the minimum part size is not enforced
PartSizeTooSmall_Unchecked(partSize) == partSize < 0

\* o.PartSize < MIN_PART_SIZE
PartSizeTooSmall(partSize) == partSize < MIN_PART_SIZE

\* mutant: an empty file is let through
FileSizeIsZero_Unchecked(size) == FALSE

\* o.FileSize == 0
FileSizeIsZero(size) == size = 0

resolvePartSize ==
    /\ exit = "running" /\ pc = "resolvePartSize"
    /\ IF FileSizeIsZero(m.FileSize) THEN Exit("fatal: file size cannot be 0")
       ELSE IF PartSizeTooSmall(m.PartSize)
       THEN Exit("fatal: part size should be larger than 5MB")
       ELSE /\ m' = [m EXCEPT !.NumberOfParts = CeilDiv(m.FileSize, m.PartSize)]
            /\ pc' = "CalculateChecksum"
            /\ UNCHANGED << inputs, received, exit, pools, chans, disp, closer, workers,
                            held, partInfoList, outputs >>

\* ------------------------------------------- CalculateChecksumForPart
PartStart(i) == m.PartSize * i
PartEnd(i) ==
    IF PartStart(i) + m.PartSize > m.FileSize THEN m.FileSize
    ELSE PartStart(i) + m.PartSize
PartLen(i) == PartEnd(i) - PartStart(i)

\* os.Open / f.Seek fail, or io.ReadFull gives all `size` bytes, fewer
\* (io.ErrUnexpectedEOF) or none (io.EOF)
ReadOutcomes == {"ok", "open error", "short", "eof"}
BytesRead(outcome, size) ==
    IF outcome = "ok" THEN size ELSE IF outcome = "short" THEN size - 1 ELSE 0

\* mutant: the byte count is not compared with the part's size
ReadError_CountUnchecked(outcome, n, size) ==
    IF outcome = "short" THEN "unexpected EOF" ELSE ""

\* the error CalculateChecksumForPart returns for a read that gave n bytes
ReadError(outcome, n, size) ==
    IF outcome = "short" THEN "unexpected EOF"
    ELSE IF n # size THEN "limitedReader returned fewer bytes"
    ELSE ""

\* mutant: the whole pooled buffer is hashed, not the bytes just read
HashedSlice_WholeBuffer(buffer, n) == buffer

\* poolData[:n]: the slice of the buffer that is hashed
HashedSlice(buffer, n) == Take(buffer, n)

\* the use of an accumulator taken from a pool: Reset, then Write
Accumulate(st, data) == HashWrite(HashReset(st), data)

PartNumberOf(i) == i + 1

NewPartInfo(i, size, checksum, md5checksum) ==
    [PartNumber |-> PartNumberOf(i), Size |-> size, Algorithm |-> "sha256",
     Checksum |-> checksum, MD5Checksum |-> md5checksum]

WorkerFrame ==
    UNCHANGED << inputs, received, pc, exit, m, chans, disp, closer, held, partInfoList,
                 outputs >>

\* os.Open, f.Seek, bufferPool.Get and io.ReadFull; on a read error the
\* deferred Put and Close run and the error is returned
WorkerRead(i) ==
    /\ exit = "running" /\ workers[i].pc = "spawned"
    /\ \E o \in ReadOutcomes :
         IF o = "open error"
         THEN /\ workers' = [workers EXCEPT ![i].pc = "failed", ![i].err = o]
              /\ UNCHANGED bufferPool
         ELSE \E g \in PoolGet(bufferPool, ZeroBytes(m.PartSize)) :
                LET size == PartLen(i)
                    n == BytesRead(o, size)
                    buffer == Overwrite(g.obj, FileBytes(PartStart(i), PartStart(i) + n))
                    err == ReadError(o, n, size)
                IN IF err # ""
                   THEN /\ bufferPool' = DeferredPut(g.pool, buffer)
                        /\ workers' = [workers EXCEPT ![i].pc = "failed", ![i].err = err]
                   ELSE /\ bufferPool' = g.pool
                        /\ workers' = [workers EXCEPT ![i].pc = "read",
                                                      ![i].buf = Some(buffer),
                                                      ![i].data = HashedSlice(buffer, n)]
    /\ UNCHANGED << hashPool, md5HashPool >>
    /\ WorkerFrame

\* hashPool.Get, Reset, Write, Sum; then calculateEtag: md5HashPool.Get,
\* Reset, Write, Sum and its deferred Put
WorkerHash(i) ==
    /\ exit = "running" /\ workers[i].pc = "read"
    /\ \E g \in PoolGet(hashPool, HashNew), ge \in PoolGet(md5HashPool, HashNew) :
         LET st == Accumulate(g.obj, workers[i].data)
             mst == Accumulate(ge.obj, workers[i].data)
         IN /\ hashPool' = g.pool
            /\ md5HashPool' = DeferredPut(ge.pool, mst)
            /\ workers' = [workers EXCEPT ![i].pc = "hashed",
                                          ![i].h = Some(st),
                                          ![i].checksum = HashSum("sha256", st),
                                          ![i].md5checksum = HashSum("md5", mst)]
    /\ UNCHANGED bufferPool
    /\ WorkerFrame

\* return p, nil: the deferred Puts of the accumulator and the buffer run
WorkerReturn(i) ==
    /\ exit = "running" /\ workers[i].pc = "hashed"
    /\ hashPool' = DeferredPut(hashPool, workers[i].h[1])
    /\ bufferPool' = DeferredPut(bufferPool, workers[i].buf[1])
    /\ workers' = [workers EXCEPT
         ![i].pc = "returned", ![i].buf = None, ![i].h = None,
         ![i].data = <<>>, ![i].checksum = <<>>, ![i].md5checksum = <<>>,
         ![i].info = Some(NewPartInfo(i, PartLen(i), workers[i].checksum,
                                      workers[i].md5checksum))]
    /\ UNCHANGED md5HashPool
    /\ WorkerFrame

\* ---------------------------------------- CalculateChecksum: goroutines
\* mutant: a worker that goes on after an error
FatalOnError_Never(err) == FALSE

\* if err != nil
FatalOnError(err) == err # ""

\* partInfo, err := m.CalculateChecksumForPart(ctx, i) has returned an error:
\* if err != nil { log.Fatal(err.Error()) }
WorkerFatal(i) ==
    /\ exit = "running" /\ workers[i].pc = "failed"
    /\ IF FatalOnError(workers[i].err) THEN Exit("fatal: " \o workers[i].err)
       ELSE /\ workers' = [workers EXCEPT ![i].pc = "returned"]
            /\ UNCHANGED pools
            /\ WorkerFrame

\* mutant: the worker goes on to publish without taking its token back
TokenTaken_Kept(n) == n

\* a receive takes one token out of the limiter's buffer
TokenTaken(n) == n - 1

\* <-limiter
WorkerRelease(i) ==
    /\ exit = "running" /\ workers[i].pc = "returned"
    /\ limiter > 0
    /\ limiter' = TokenTaken(limiter)
    /\ workers' = [workers EXCEPT ![i].pc = "released"]
    /\ UNCHANGED << inputs, received, pc, exit, m, pools, limiterClosed, resultsClosed, wg,
                    disp, closer, held, partInfoList, outputs >>

\* []byte("ERROR CALCULATING")
ErrorCalculating == << [k |-> "text", lo |-> 0, hi |-> 17, of |-> <<>>] >>

\* the body of the range loop: if m.Err != nil { m.Info.Checksum = ... }
ReceivedInfo(info, err) ==
    IF err # "" THEN [info EXCEPT !.Checksum = ErrorCalculating] ELSE info

\* results <- ChecksumResult{partInfo, err}, met by the receive of the range
\* loop (the channel is unbuffered), whose body reads m.Info.PartNumber when
\* Err is set and appends Info
Collect(i) ==
    /\ exit = "running" /\ workers[i].pc = "released"
    /\ IF resultsClosed THEN Exit("panic: send on closed channel")
       ELSE /\ pc = "collect"
            /\ IF workers[i].err # "" /\ workers[i].info = None
               THEN Exit("panic: nil pointer dereference")
               ELSE /\ partInfoList' = Append(partInfoList,
                                           ReceivedInfo(workers[i].info[1], workers[i].err))
                    /\ received' = Append(received, workers[i].info[1].PartNumber)
                    /\ workers' = [workers EXCEPT ![i].pc = "sent"]
                    /\ UNCHANGED << inputs, pc, exit, m, pools, chans, disp, closer,
                                    held, outputs >>

\* defer wg.Done()
WorkerDone(i) ==
    /\ exit = "running" /\ workers[i].pc = "sent"
    /\ wg' = wg - 1
    /\ workers' = [workers EXCEPT ![i].pc = "done"]
    /\ UNCHANGED << inputs, received, pc, exit, m, pools, limiter, limiterClosed,
                    resultsClosed, disp, closer, held, partInfoList, outputs >>

\* mutant: a limiter that admits one worker too many
LimiterHasRoom_OffByOne(n, cap) == n <= cap

\* make(chan struct{}, m.Threads): a send proceeds while the buffer has room
LimiterHasRoom(n, cap) == n < cap

\* mutant: a loop that runs one index too far
DispatchMore_OneTooMany(i, n) == i <= n

\* i < int32(m.NumberOfParts)
DispatchMore(i, n) == i < n

\* limiter <- struct{}{}: blocks while the channel is full, panics if closed
DispatchAdmit ==
    /\ exit = "running" /\ disp.pc = "loop" /\ DispatchMore(disp.i, m.NumberOfParts)
    /\ IF limiterClosed THEN Exit("panic: send on closed channel")
       ELSE /\ LimiterHasRoom(limiter, m.Threads)
            /\ limiter' = limiter + 1
            /\ disp' = [disp EXCEPT !.pc = "go"]
            /\ UNCHANGED << inputs, received, pc, exit, m, pools, limiterClosed,
                            resultsClosed, wg, closer, workers, held,
                            partInfoList, outputs >>

\* go func(i int32) {...}(i); i++
DispatchSpawn ==
    /\ exit = "running" /\ disp.pc = "go"
    /\ workers' = [workers EXCEPT ![disp.i].pc = "spawned"]
    /\ disp' = [pc |-> "loop", i |-> disp.i + 1]
    /\ UNCHANGED << inputs, received, pc, exit, m, pools, chans, closer, held,
                    partInfoList, outputs >>

\* the loop condition fails: the dispatching goroutine ends
DispatchEnd ==
    /\ exit = "running" /\ disp.pc = "loop" /\ ~DispatchMore(disp.i, m.NumberOfParts)
    /\ disp' = [disp EXCEPT !.pc = "end"]
    /\ UNCHANGED << inputs, received, pc, exit, m, pools, chans, closer, workers, held,
                    partInfoList, outputs >>

\* mutant: the join barrier opens with one worker still running
WaitGroupZero_Early(n) == n <= 1

\* wg.Wait() returns when the counter is zero
WaitGroupZero(n) == n = 0

\* wg.Wait()
CloserWait ==
    /\ exit = "running" /\ closer = "wait" /\ WaitGroupZero(wg)
    /\ closer' = "closeResults"
    /\ UNCHANGED << inputs, received, pc, exit, m, pools, chans, disp, workers, held,
                    partInfoList, outputs >>

\* close(results)
CloseResults ==
    /\ exit = "running" /\ closer = "closeResults"
    /\ resultsClosed' = TRUE
    /\ closer' = "closeLimiter"
    /\ UNCHANGED << inputs, received, pc, exit, m, pools, limiter, limiterClosed, wg, disp,
                    workers, held, partInfoList, outputs >>

\* close(limiter)
CloseLimiter ==
    /\ exit = "running" /\ closer = "closeLimiter"
    /\ limiterClosed' = TRUE
    /\ closer' = "end"
    /\ UNCHANGED << inputs, received, pc, exit, m, pools, limiter, resultsClosed, wg, disp,
                    workers, held, partInfoList, outputs >>

\* ------------------------------------- CalculateChecksum: main goroutine
\* mutant: the WaitGroup expects one goroutine more than are started
WaitGroupAdd_OneTooMany(n) == n + 1

\* wg.Add(m.NumberOfParts)
WaitGroupAdd(n) == n

\* make(chan ...), wg.Add(NumberOfParts), and the two go statements
CalculateChecksumStart ==
    /\ exit = "running" /\ pc = "CalculateChecksum"
    /\ IF m.Threads < 0 THEN Exit("panic: makechan: size out of range")
       ELSE /\ wg' = WaitGroupAdd(m.NumberOfParts)
            /\ disp' = [pc |-> "loop", i |-> 0]
            /\ closer' = "wait"
            /\ pc' = "collect"
            /\ UNCHANGED << inputs, received, exit, m, pools, limiter, limiterClosed,
                            resultsClosed, workers, held, partInfoList, outputs >>

\* the range loop over results ends when the channel is closed
CollectEnd ==
    /\ exit = "running" /\ pc = "collect" /\ resultsClosed
    /\ pc' = "sort"
    /\ UNCHANGED << inputs, received, exit, m, pools, chans, disp, closer, workers, held,
                    partInfoList, outputs >>

RECURSIVE InsertByPartNumber(_, _)
InsertByPartNumber(p, list) ==
    IF list = <<>> THEN << p >>
    ELSE IF p.PartNumber < Head(list).PartNumber THEN << p >> \o list
    ELSE << Head(list) >> \o InsertByPartNumber(p, Tail(list))

RECURSIVE SortedByPartNumber(_)
SortedByPartNumber(list) ==
    IF list = <<>> THEN <<>>
    ELSE InsertByPartNumber(Head(list), SortedByPartNumber(Tail(list)))

\* mutant: the list is aggregated in the order of arrival
SortParts_Missing(list) == list

\* sort.Slice(partInfoList, ...PartNumber < ...PartNumber)
SortParts(list) == SortedByPartNumber(list)

Sort ==
    /\ exit = "running" /\ pc = "sort"
    /\ partInfoList' = SortParts(partInfoList)
    /\ pc' = "aggregate"
    /\ UNCHANGED << inputs, received, exit, m, pools, chans, disp, closer, workers, held,
                    outputs >>

\* for _, part := range partInfoList { h.Write(part.Checksum) }
RECURSIVE WriteChecksums(_, _)
WriteChecksums(st, list) ==
    IF list = <<>> THEN st
    ELSE WriteChecksums(HashWrite(st, Head(list).Checksum), Tail(list))

\* for _, part := range partInfoList { etagChecksum.Write(part.MD5Checksum) }
RECURSIVE WriteMD5Checksums(_, _)
WriteMD5Checksums(st, list) ==
    IF list = <<>> THEN st
    ELSE WriteMD5Checksums(HashWrite(st, Head(list).MD5Checksum), Tail(list))

\* mutant: the hash-of-hashes branch taken for a single part too
IsMultipart_Always(list) == Len(list) > 0

\* the branch condition of the aggregation
IsMultipart(list) == Len(list) > 1

\* the ManifestFile of the multi-part branch
MultipartManifest(list, hst, est) ==
    [Filename |-> "", PartSize |-> 0, PartList |-> list,
     Checksum |-> HashSum("sha256", hst), Etag |-> HashSum("md5", est),
     Algorithm |-> ""]

\* the ManifestFile of the else branch: PartList is left nil
SinglePartManifest(list) ==
    [Filename |-> "", PartSize |-> 0, PartList |-> <<>>,
     Checksum |-> list[1].Checksum, Etag |-> list[1].MD5Checksum,
     Algorithm |-> ""]

\* manifest.Filename, manifest.PartSize, manifest.Algorithm
FillManifest(mf) ==
    [mf EXCEPT !.Filename = m.FilePath, !.PartSize = m.PartSize,
               !.Algorithm = m.Algorithm]

Aggregate ==
    /\ exit = "running" /\ pc = "aggregate"
    /\ IF IsMultipart(partInfoList)
       THEN \E gh \in PoolGet(hashPool, HashNew), ge \in PoolGet(md5HashPool, HashNew) :
              LET hst == WriteChecksums(HashReset(gh.obj), partInfoList)
                  est == WriteMD5Checksums(HashReset(ge.obj), partInfoList)
              IN /\ hashPool' = gh.pool
                 /\ md5HashPool' = ge.pool
                 /\ held' = [h |-> Some(hst), etagChecksum |-> Some(est)]
                 /\ manifest' = Some(FillManifest(MultipartManifest(partInfoList, hst, est)))
                 /\ pc' = "writeManifest"
                 /\ UNCHANGED << inputs, received, exit, m, bufferPool, chans, disp, closer,
                                 workers, partInfoList, disk, stdout >>
       ELSE IF partInfoList = <<>>
       THEN Exit("panic: index out of range")
       ELSE /\ manifest' = Some(FillManifest(SinglePartManifest(partInfoList)))
            /\ pc' = "writeManifest"
            /\ UNCHANGED << inputs, received, exit, m, pools, chans, disp, closer, workers,
                            held, partInfoList, disk, stdout >>

\* --------------------------------------------------------- manifest.go
\* ByteSlice.String(): base64 (printHex is false unless --print-hex)
RenderString(bytes) == [enc |-> "base64", of |-> bytes]
\* fmt.Sprintf("%x", ...)
RenderHex(bytes) == [enc |-> "hex", of |-> bytes]

\* the "%s-%d" of a digest and len(PartList)
Suffixed(text, list) == [text |-> text, suffix |-> Len(list)]

ManifestRow(v) ==
    [filename |-> v.Filename, partSize |-> v.PartSize, algorithm |-> v.Algorithm,
     checksumOfChecksums |-> Suffixed(RenderString(v.Checksum), v.PartList),
     etag |-> Suffixed(RenderHex(v.Etag), v.PartList)]

CreateOutcomes == {"ok", "error"}

\* if m.ManifestFilePath != "" { err = WriteSimpleManifest(...) }; return
\* with the deferred Puts of the multi-part branch
WriteManifest ==
    /\ exit = "running" /\ pc = "writeManifest"
    /\ IF m.ManifestFilePath # ""
       THEN \E o \in CreateOutcomes :
              /\ disk' = IF o = "ok" THEN << ManifestRow(manifest[1]) >> ELSE disk
              /\ pc' = IF o = "ok" THEN "return" ELSE "returnErr"
       ELSE /\ disk' = disk
            /\ pc' = "return"
    /\ UNCHANGED << inputs, received, exit, m, pools, chans, disp, closer, workers, held,
                    partInfoList, manifest, stdout >>

\* return manifest, err: the deferred Puts run
Return ==
    /\ exit = "running" /\ pc \in {"return", "returnErr"}
    /\ hashPool' = IF held.h = None THEN hashPool ELSE DeferredPut(hashPool, held.h[1])
    /\ md5HashPool' = IF held.etagChecksum = None THEN md5HashPool
                      ELSE DeferredPut(md5HashPool, held.etagChecksum[1])
    /\ held' = [h |-> None, etagChecksum |-> None]
    /\ pc' = IF pc = "return" THEN "print" ELSE "error"
    /\ UNCHANGED << inputs, received, exit, m, bufferPool, chans, disp, closer, workers,
                    partInfoList, outputs >>

\* ------------------------------------------- cmd/s3checksum/main.go
PartLine(part) == [label |-> "Part", n |-> part.PartNumber,
                   text |-> RenderString(part.Checksum), suffix |-> 0]
RECURSIVE PartLines(_)
PartLines(list) ==
    IF list = <<>> THEN <<>> ELSE << PartLine(Head(list)) >> \o PartLines(Tail(list))

SummaryLines(info) ==
    << [label |-> "Amazon S3 SHA256", n |-> 0,
        text |-> RenderString(info.Checksum), suffix |-> Len(info.PartList)],
       [label |-> "Amazon S3 Etag", n |-> 0,
        text |-> RenderHex(info.Etag), suffix |-> Len(info.PartList)] >>

\* the Action after CalculateChecksum has returned
PrintResult ==
    /\ exit = "running" /\ pc \in {"print", "error"}
    /\ IF pc = "error"
       THEN /\ exit' = "error: manifest"
            /\ stdout' = stdout
       ELSE /\ exit' = "ok"
            /\ stdout' = PartLines(manifest[1].PartList) \o SummaryLines(manifest[1])
    /\ UNCHANGED << inputs, received, pc, m, pools, chans, disp, closer, workers, held,
                    partInfoList, manifest, disk >>

\* ------------------------------------------------------ specification
Next ==
    \/ Action
    \/ checkRequiredArgs
    \/ resolvePartSize
    \/ CalculateChecksumStart
    \/ DispatchAdmit
    \/ DispatchSpawn
    \/ DispatchEnd
    \/ \E i \in Parts : WorkerRead(i)
    \/ \E i \in Parts : WorkerHash(i)
    \/ \E i \in Parts : WorkerReturn(i)
    \/ \E i \in Parts : WorkerFatal(i)
    \/ \E i \in Parts : WorkerRelease(i)
    \/ \E i \in Parts : Collect(i)
    \/ \E i \in Parts : WorkerDone(i)
    \/ CloserWait
    \/ CloseResults
    \/ CloseLimiter
    \/ CollectEnd
    \/ Sort
    \/ Aggregate
    \/ WriteManifest
    \/ Return
    \/ PrintResult

Spec == Init /\ [][Next]_vars

\* the Go scheduler runs some goroutine that is able to take a step
FairSpec == Spec /\ WF_vars(Next)

\* =============================================================== claims
\* the run has passed construction: m is the MultipartFile in use
Constructed == pc \notin {"Action", "checkRequiredArgs", "resolvePartSize"}

PartIndices == { i \in Parts : i < m.NumberOfParts }

\* workers between admission (the token sent for them) and their <-limiter
InFlight == { i \in Parts : workers[i].pc \in {"spawned", "read", "hashed", "returned", "failed"} }
\* a token has been sent for a worker that the go statement has yet to start
Admitting == IF disp.pc = "go" THEN 1 ELSE 0
\* workers holding a pooled buffer or accumulator
Holders == { i \in Parts : workers[i].buf # None \/ workers[i].h # None }

\* C1: with ThreadLimit k >= 1, at most k workers are between admission and
\* slot release, and so at most k workers hold a pool resource at once.
C1_AdmissionBound ==
    (Constructed /\ m.Threads >= 1) =>
        /\ Cardinality(InFlight) + Admitting <= m.Threads
        /\ Holders \subseteq InFlight
        /\ Cardinality(Holders) <= m.Threads

\* k workers hold pool resources while the dispatcher is blocked on a full
\* limiter with parts still to admit
C1_Witness ==
    /\ m.Threads >= 1
    /\ Cardinality(Holders) = m.Threads
    /\ disp.pc = "loop" /\ disp.i < m.NumberOfParts
    /\ limiter = m.Threads

\* the PartInfo a worker produced for PartNumber pn
PartOf(pn) == workers[pn - 1].info[1]

RECURSIVE ChecksumsUpTo(_)
ChecksumsUpTo(n) == IF n = 0 THEN <<>> ELSE Cat(ChecksumsUpTo(n - 1), PartOf(n).Checksum)
RECURSIVE MD5ChecksumsUpTo(_)
MD5ChecksumsUpTo(n) ==
    IF n = 0 THEN <<>> ELSE Cat(MD5ChecksumsUpTo(n - 1), PartOf(n).MD5Checksum)

\* C2: for one part the aggregate Checksum and Etag are that part's digests
\* themselves; for more parts they are the content hash (the MD5) of the
\* parts' digests concatenated in ascending PartNumber order.
C2_AggregationRule ==
    manifest # None =>
        IF m.NumberOfParts = 1
        THEN /\ manifest[1].Checksum = PartOf(1).Checksum
             /\ manifest[1].Etag = PartOf(1).MD5Checksum
        ELSE /\ manifest[1].Checksum = HashSum("sha256", ChecksumsUpTo(m.NumberOfParts))
             /\ manifest[1].Etag = HashSum("md5", MD5ChecksumsUpTo(m.NumberOfParts))

\* a single-part run has produced its aggregate
C2_Witness ==
    /\ manifest # None /\ m.NumberOfParts = 1
    /\ manifest[1].Checksum = HashSum("sha256", FileBytes(0, diskSize))

\* the aggregate the file's content and the part size determine, computed
\* one part after the other from the inputs alone
ExpectedPartSize == chunksize * 1024 * 1024
ExpectedParts ==
    CHOOSE n \in 0 .. (MaxParts + 1) :
        (n - 1) * ExpectedPartSize < diskSize /\ diskSize <= n * ExpectedPartSize
ExpectedData(pn) ==
    FileBytes((pn - 1) * ExpectedPartSize,
              IF pn * ExpectedPartSize < diskSize THEN pn * ExpectedPartSize ELSE diskSize)
RECURSIVE ExpectedDigests(_, _)
ExpectedDigests(alg, n) ==
    IF n = 0 THEN <<>>
    ELSE ExpectedDigests(alg, n - 1) \o HashSum(alg, ExpectedData(n))
ExpectedAggregate(alg) ==
    IF ExpectedParts = 1 THEN HashSum(alg, ExpectedData(1))
    ELSE HashSum(alg, ExpectedDigests(alg, ExpectedParts))

\* C3: whatever the order in which results are published and collected and
\* whatever the pool hands out, the aggregate Checksum and Etag are the ones
\* the file content and PartSize determine.
C3_Deterministic ==
    manifest # None =>
        /\ manifest[1].Checksum = ExpectedAggregate("sha256")
        /\ manifest[1].Etag = ExpectedAggregate("md5")

\* an aggregate was produced from results received in descending order by
\* workers that shared one buffer
C3_Witness ==
    /\ manifest # None
    /\ received = << 2, 1 >>
    /\ BagCardinality(bufferPool) = 1

\* C4: NumberOfParts = ceil(FileSize / PartSize); the parts' byte ranges are
\* contiguous and cover the file; every part has PartSize bytes except the
\* last, which has FileSize - (N-1) * PartSize, between 1 and PartSize; the
\* sizes of the collected parts sum to FileSize.
RECURSIVE SumSizes(_)
SumSizes(list) == IF list = <<>> THEN 0 ELSE Head(list).Size + SumSizes(Tail(list))

C4_PartGeometry ==
    Constructed =>
        LET N == m.NumberOfParts
        IN /\ (N - 1) * m.PartSize < m.FileSize /\ m.FileSize <= N * m.PartSize
           /\ PartStart(0) = 0
           /\ PartEnd(N - 1) = m.FileSize
           /\ \A i \in PartIndices :
                /\ i < N - 1 => PartEnd(i) = PartStart(i + 1) /\ PartLen(i) = m.PartSize
                /\ i = N - 1 => /\ PartLen(i) = m.FileSize - (N - 1) * m.PartSize
                                /\ PartLen(i) >= 1 /\ PartLen(i) <= m.PartSize
                /\ workers[i].info # None => workers[i].info[1].Size = PartLen(i)
           /\ resultsClosed => SumSizes(partInfoList) = m.FileSize

\* all parts of a two-part file whose last part is shorter were collected
C4_Witness ==
    /\ resultsClosed /\ Len(partInfoList) = 2
    /\ \E p \in { partInfoList[j] : j \in 1 .. 2 } : p.PartNumber = 2 /\ p.Size < m.PartSize

\* C5: the result carries a part list of exactly N entries, PartNumbers 1..N
\* in ascending order.
C5_PartListComplete ==
    manifest # None =>
        /\ Len(manifest[1].PartList) = m.NumberOfParts
        /\ \A j \in 1 .. Len(manifest[1].PartList) : manifest[1].PartList[j].PartNumber = j

\* C6: exactly the part indices 0..N-1 are dispatched, in a loop that never
\* goes beyond N; each worker's result carries PartNumber = index + 1; the
\* collector holds one result per publishing worker, with pairwise distinct
\* PartNumbers, and all of 1..N once the results channel is closed.
Dispatched == { i \in Parts : workers[i].pc # "idle" }
Published == { i \in Parts : workers[i].pc \in {"sent", "done"} }
PartNumbersOf(list) == { list[j].PartNumber : j \in 1 .. Len(list) }

C6_ExactlyOncePerPart ==
    Constructed =>
        /\ disp.i <= m.NumberOfParts
        /\ Dispatched = { i \in Parts : i < disp.i }
        /\ \A i \in Parts : workers[i].info # None =>
                                workers[i].info[1].PartNumber = i + 1
        /\ Len(partInfoList) = Cardinality(Published)
        /\ PartNumbersOf(partInfoList) = { i + 1 : i \in Published }
        /\ resultsClosed => PartNumbersOf(partInfoList) = 1 .. m.NumberOfParts

\* both results of a two-part run were collected and the channel closed
C6_Witness ==
    /\ resultsClosed /\ m.NumberOfParts = 2 /\ pc = "collect"
    /\ Len(partInfoList) = 2

\* C7: the results channel is closed only after all N workers have published
\* and completed; sort and aggregation run only after the close, with no
\* worker running, and each is entered once, in that order.
AllJoined == \A i \in PartIndices : workers[i].pc = "done"
AfterCollect == {"sort", "aggregate", "writeManifest", "return", "returnErr", "print", "error"}

C7_JoinBeforeClose ==
    /\ [](resultsClosed \/ closer \in {"closeResults", "closeLimiter", "end"}
            => AllJoined /\ wg = 0 /\ Len(partInfoList) = m.NumberOfParts)
    /\ [](pc \in AfterCollect => resultsClosed /\ AllJoined)
    /\ [][/\ (pc' = "sort" /\ pc # "sort") => (pc = "collect" /\ resultsClosed)
          /\ (pc' = "aggregate" /\ pc # "aggregate") => pc = "sort"
          /\ (pc \in AfterCollect \ {"sort"}) => pc' # "sort"
          /\ (pc \in AfterCollect \ {"sort", "aggregate"}) => pc' # "aggregate"]_vars

\* a two-part list has been sorted after out-of-order arrival
C7_Witness ==
    /\ pc = "aggregate" /\ received = << 2, 1 >>
    /\ partInfoList[1].PartNumber = 1 /\ partInfoList[2].PartNumber = 2

\* C8: a worker takes its token back from the limiter after its read and
\* hash work and before it publishes: the tokens in the limiter are exactly
\* those of the workers still before their release, and a worker that is
\* publishing or has published has its result, no pool object and no token.
C8_ReleaseBeforePublish ==
    (Constructed /\ m.Threads >= 1) =>
        /\ limiter = Cardinality(InFlight) + Admitting
        /\ \A i \in Parts : workers[i].pc \in {"released", "sent", "done"} =>
              /\ workers[i].info # None
              /\ workers[i].buf = None /\ workers[i].h = None

\* with one slot, part 2 is admitted while part 1's result is unpublished
C8_Witness ==
    /\ m.Threads = 1
    /\ workers[0].pc = "released"
    /\ workers[1].pc \in {"spawned", "read", "hashed"}

\* C9: with an empty or unreadable FilePath, an empty file or a PartSize
\* below 5 MiB the run ends in construction: no goroutine is started, no
\* pool object exists, no result, manifest or output is produced.
ConfigInvalid ==
    \/ file = "" \/ file = "missing"
    \/ diskSize = 0
    \/ chunksize * 1024 * 1024 < 5242880

ConfigFailures ==
    {"error: --file flag is required", "fatal: FilePath is a required parameter",
     "fatal: stat", "fatal: file size cannot be 0",
     "fatal: part size should be larger than 5MB",
     "fatal: threads must be a positive value"}

C9_ConfigErrorBeforeWork ==
    ConfigInvalid =>
        /\ ~Constructed
        /\ exit \in ConfigFailures \cup {"running"}
        /\ (exit = "running" => ENABLED Next)
        /\ disp.pc = "idle" /\ closer = "idle"
        /\ \A i \in Parts : workers[i] = IdleWorker
        /\ bufferPool = EmptyBag /\ hashPool = EmptyBag /\ md5HashPool = EmptyBag
        /\ partInfoList = <<>> /\ manifest = None /\ disk = <<>> /\ stdout = <<>>

\* a part size of 4 MiB on a readable, non-empty file was rejected
C9_Witness ==
    /\ exit = "fatal: part size should be larger than 5MB"
    /\ file = "file" /\ diskSize > 0 /\ chunksize = 4

\* C10: a worker goes on past its read only with all `size` bytes of its
\* part; once a part's read has failed the worker stays failed (no retry),
\* no result, manifest or output is ever produced, and the process can only
\* end by the fatal exit.
Failed == { i \in Parts : workers[i].pc = "failed" }

C10_ReadFailureAborts ==
    /\ [](\A i \in Parts : workers[i].pc \in {"read", "hashed"} =>
              BLen(workers[i].data) = PartLen(i))
    /\ [](Failed # {} =>
              /\ pc = "collect" /\ ~resultsClosed
              /\ manifest = None /\ disk = <<>> /\ stdout = <<>>
              /\ exit \in {"running"} \cup { "fatal: " \o workers[i].err : i \in Failed })
    /\ [][\A i \in Failed : workers'[i] = workers[i]]_vars

\* a short read ended the process after a sibling had published its result
C10_Witness ==
    /\ exit = "fatal: unexpected EOF"
    /\ \E i \in Parts : workers[i].pc \in {"sent", "done"}

\* C11: with ThreadLimit >= 1 a run never deadlocks: under fair scheduling,
\* once CalculateChecksum is called it returns, unless a part's read fails
\* (and then the process ends by the fatal exit).
Returned == pc \in {"print", "error"}

C11_NoDeadlock ==
    (pc = "CalculateChecksum" /\ m.Threads >= 1)
        ~> (Returned \/ (Failed # {} /\ exit # "running"))

\* a two-part run on one slot has returned
C11_Witness ==
    /\ Returned /\ m.Threads = 1 /\ m.NumberOfParts = 2 /\ limiterClosed

\* C12: every accumulator taken from a pool is reset before it is written
\* to: a part's content digest and MD5 digest are digests of exactly the
\* bytes hashed for that part, and the aggregate accumulators hold exactly
\* the parts' digests, whatever their previous holders accumulated.
C12_ResetBeforeUse ==
    /\ \A i \in Parts : workers[i].pc = "hashed" =>
          /\ workers[i].h = Some(workers[i].data)
          /\ workers[i].checksum = HashSum("sha256", workers[i].data)
          /\ workers[i].md5checksum = HashSum("md5", workers[i].data)
    /\ held.h # None => held.h = Some(ChecksumsUpTo(m.NumberOfParts))
    /\ held.etagChecksum # None =>
          held.etagChecksum = Some(MD5ChecksumsUpTo(m.NumberOfParts))

\* part 2 was hashed with the accumulators part 1 had put back
C12_Witness ==
    /\ workers[1].pc = "hashed"
    /\ workers[0].pc \in {"returned", "released", "sent", "done"}
    /\ hashPool = EmptyBag
    /\ BagCardinality(md5HashPool) = 1

\* C13: the bytes a part feeds to the content hash and to MD5 are exactly
\* the file's bytes [start, end) of that part, also for a short last part
\* read into a buffer that an earlier, full-size part had filled.
C13_HashedBytesAreThePart ==
    \A i \in Parts : workers[i].pc \in {"read", "hashed"} =>
        /\ workers[i].data = ExpectedData(i + 1)
        /\ BLen(workers[i].data) = PartLen(i)
        /\ BLen(workers[i].buf[1]) = m.PartSize

\* the one-byte last part sits in a buffer whose tail still holds part 1
C13_Witness ==
    /\ workers[1].pc = "hashed"
    /\ PartLen(1) < m.PartSize
    /\ workers[1].buf = Some(<< FileChunk(m.PartSize, m.PartSize + 1),
                                FileChunk(1, m.PartSize) >>)

\* C14: when CalculateChecksumForPart has returned, with a PartInfo or with
\* an error, the worker holds no buffer and no accumulator and what it took
\* is back in the pools; after CalculateChecksum has returned nothing is
\* held by anyone.
AfterPart == {"returned", "released", "sent", "done", "failed"}
TookBuffer ==
    { i \in Parts : \/ workers[i].pc \in {"read", "hashed", "returned", "released", "sent", "done"}
                    \/ workers[i].pc = "failed" /\ workers[i].err # "open error" }
TookAccumulators ==
    { i \in Parts : workers[i].pc \in {"hashed", "returned", "released", "sent", "done"} }
Count(S) == Cardinality(S)
HeldCount(x) == IF x = None THEN 0 ELSE 1

C14_AcquireReleasePaired ==
    /\ \A i \in Parts : workers[i].pc \in AfterPart =>
          workers[i].buf = None /\ workers[i].h = None
    /\ TookBuffer # {} =>
          BagCardinality(bufferPool) + Count({ i \in Parts : workers[i].buf # None }) >= 1
    /\ TookAccumulators # {} =>
          /\ BagCardinality(hashPool) + Count({ i \in Parts : workers[i].h # None })
                + HeldCount(held.h) >= 1
          /\ BagCardinality(md5HashPool) + HeldCount(held.etagChecksum) >= 1
    /\ (\A i \in Parts : workers[i].pc \in AfterPart \cup {"idle"}) /\ TookBuffer # {} =>
          BagCardinality(bufferPool) >= 1
    /\ Returned =>
          /\ held.h = None /\ held.etagChecksum = None
          /\ Holders = {}
          /\ BagCardinality(bufferPool) >= 1
          /\ BagCardinality(hashPool) >= 1
          /\ BagCardinality(md5HashPool) >= 1

\* a short read has failed the only part started so far and the buffer it
\* read into is in the pool
C14_Witness ==
    /\ workers[0].pc = "failed" /\ workers[0].err = "unexpected EOF"
    /\ \A i \in Parts \ {0} : workers[i].pc = "idle"
    /\ Holders = {}
    /\ BagCardinality(bufferPool) = 1

\* C15: every MultipartFile that NewMultipartFile produces has
\* NumberOfParts >= 1, and CalculateChecksum reaches its aggregation with a
\* non-empty part list: the single-part branch never indexes an empty list.
C15_NeverZeroParts ==
    /\ Constructed => m.NumberOfParts >= 1
    /\ pc \in AfterCollect \ {"sort"} => partInfoList # <<>>
    /\ exit # "panic: index out of range"

\* the single-part branch is about to read the first element of a list of one
C15_Witness ==
    /\ pc = "aggregate" /\ Len(partInfoList) = 1 /\ m.FileSize = 1

\* C16: for every thread count that is not positive (threads <= 0) the
\* checksum command goes no further than its first check, where it aborts
\* with "threads must be a positive value"; hence every MultipartFile the
\* engine is started with has Threads >= 1.
C16_NonPositiveThreadsRejected ==
    /\ threads <= 0 =>
           /\ pc = "Action"
           /\ exit \in {"running", "fatal: threads must be a positive value"}
    /\ Constructed => m.Threads >= 1

\* C17: with Threads = 0 (and NumberOfParts >= 1) the run deadlocks: the
\* dispatcher never gets past admitting the first part, no worker is ever
\* started, the results channel is never closed, CalculateChecksum never
\* leaves its range loop, and once it is in the loop no step is possible.
C17_ZeroThreadsDeadlock ==
    (Constructed /\ m.Threads = 0) =>
        /\ m.NumberOfParts >= 1
        /\ exit = "running"
        /\ pc \in {"CalculateChecksum", "collect"}
        /\ disp.i = 0 /\ disp.pc # "go" /\ limiter = 0
        /\ Dispatched = {}
        /\ ~resultsClosed /\ ~limiterClosed /\ closer \in {"idle", "wait"}
        /\ partInfoList = <<>> /\ manifest = None /\ stdout = <<>>
        /\ pc = "collect" => ~ENABLED Next

\* the three goroutines of a run with a limiter of capacity 0, all blocked
C17_Witness ==
    /\ pc = "collect" /\ m.Threads = 0 /\ m.NumberOfParts = 2
    /\ disp.pc = "loop" /\ closer = "wait" /\ wg = 2

\* C18: for every file with N >= 1 parts, the suffix printed after the
\* aggregate Checksum and the aggregate Etag, and the suffix written after
\* both in the manifest row, is N; the result's raw Checksum and Etag are
\* the bare digests (one digest value each, nothing appended).
C18_SuffixIsPartCount ==
    /\ stdout # <<>> =>
           \A j \in 1 .. Len(stdout) :
               stdout[j].label # "Part" => stdout[j].suffix = m.NumberOfParts
    /\ disk # <<>> =>
           /\ disk[1].checksumOfChecksums.suffix = m.NumberOfParts
           /\ disk[1].etag.suffix = m.NumberOfParts
    /\ manifest # None =>
           /\ Len(manifest[1].Checksum) = 1 /\ manifest[1].Checksum[1].k = "sha256"
           /\ Len(manifest[1].Etag) = 1 /\ manifest[1].Etag[1].k = "md5"

\* C19: every ChecksumResult sent on results has a nil Err and a non-nil
\* Info: a worker whose part failed never gets to its send. Hence the
\* collector's error branch is never taken: no entry of partInfoList has its
\* Checksum overwritten, each is the PartInfo its worker returned, and the
\* dereference of a nil Info never happens.
C19_OnlySuccessfulResults ==
    /\ \A i \in Parts :
         /\ workers[i].pc \in {"released", "sent", "done"} =>
                workers[i].err = "" /\ workers[i].info # None
         /\ workers[i].err # "" =>
                workers[i].pc = "failed" /\ workers[i].info = None
    /\ \A j \in 1 .. Len(partInfoList) :
         /\ partInfoList[j].Checksum # ErrorCalculating
         /\ partInfoList[j].PartNumber - 1 \in Parts
         /\ workers[partInfoList[j].PartNumber - 1].info = Some(partInfoList[j])
    /\ exit # "panic: nil pointer dereference"

\* one part has failed and its worker is about to end the program, while
\* the other part's result has been received by the collector
C19_Witness ==
    /\ workers[0].pc = "failed" /\ workers[0].err # ""
    /\ workers[1].pc = "sent" /\ Len(partInfoList) = 1

\* C20: the limiter is closed only after the dispatcher has performed all
\* NumberOfParts sends on it and every token has been received back: when it
\* is closed the dispatcher's loop has run to its end, no worker is still to
\* take its token, the channel is empty, and no send on the closed channel
\* ever happens.
C20_LimiterClosedWhenDrained ==
    /\ limiterClosed =>
           /\ disp.i = m.NumberOfParts /\ disp.pc # "go"
           /\ Cardinality(Dispatched) = m.NumberOfParts
           /\ InFlight = {}
           /\ limiter = 0
           /\ resultsClosed
    /\ exit # "panic: send on closed channel"

\* both parts went through a limiter of capacity one before it was closed
C20_Witness ==
    /\ limiterClosed /\ closer = "end"
    /\ m.NumberOfParts = 2 /\ m.Threads = 1 /\ Len(received) = 2

====
